---- MODULE Spec2Model ----
(***************************************************************************)
(* Telemetry acquisition and lap segmentation of test-listener.py:         *)
(* the two telemetry readers (ACUDPReader, ACCReader), the source selector *)
(* (on_game_changed, detect_game) and the lap segmentation / session       *)
(* recording done by TelemetryApp.update_telemetry.                        *)
(*                                                                         *)
(* Numbers: floats of the program are modelled by integers.  A steering    *)
(* angle is counted in units of pi/4 rad, so that math.degrees is the      *)
(* multiplication by 45.  Pedal inputs of the shared memory are 0 or 1.    *)
(***************************************************************************)
EXTENDS Integers, Sequences, FiniteSets, TLC

VARIABLES
    auto_detect,        \* TelemetryApp.auto_detect
    current_reader,     \* TelemetryApp.current_reader  (a reader reference)
    ac_reader,          \* TelemetryApp.ac_reader       (a reader reference)
    acc_available,      \* TelemetryApp.acc_reader.available
    readers,            \* every ACUDPReader constructed so far, by identity
    current_lap_count,  \* TelemetryApp.current_lap_count
    last_lap_time,      \* TelemetryApp.last_lap_time
    current_lap_data,   \* TelemetryApp.current_lap_data
    session_laps,       \* TelemetryApp.session_laps
    connection_label,   \* text of TelemetryApp.connection_label
    now,                \* the wall clock, int(time.time() * 1000)
    exported,           \* the figure last saved by _export_graphs
    processed           \* history: one entry per sample update_telemetry processed

vars == << auto_detect, current_reader, ac_reader, acc_available, readers,
           current_lap_count, last_lap_time, current_lap_data, session_laps,
           connection_label, now, exported, processed >>

----------------------------------------------------------------------------
(* Bounds of the model *)

MaxTicks == 4                  \* steps of the wall clock in the runs of SpecClock
ClockSamples == 2              \* samples processed in the runs of SpecClock
SwitchSamples == 2             \* samples processed in the runs of SpecSwitch
HandOffSamples == 2            \* samples processed in the runs of SpecHandOff
ExportSamples == 2             \* samples processed in the runs of SpecExport
MaxSamples == 3     \* samples processed by update_telemetry
MaxLap == 2         \* largest completed-lap counter the shared memory reports
EngineReaders == 1
UdpReaders == 1                \* ACUDPReader objects constructed in the runs of SpecUdp
UdpSamples == 1                \* samples processed in the runs of SpecUdp
ReconfReaders == 2             \* ACUDPReader objects constructed in the runs of SpecReconf  \* ACUDPReader objects constructed in the runs of SpecEngine

(* Program constants *)

RestartThresholdMs == 5000     \* the 5000 of the lap-change test
MsPerSecond == 1000            \* divisor of the x values of an export
RadUnitDeg == 45               \* math.degrees of one unit of angle (pi/4 rad)
CarInfoTag == 2                \* packet_id of a car-info datagram
CoreCarInfoLen == 36           \* length from which speed, RPM and gear are decoded
FullCarInfoLen == 56           \* length from which the pedal fields are decoded
UdpMaxRpm == 8000              \* 'max_rpm' of a UDP sample
UdpMaxFuel == 100              \* 'max_fuel' of a UDP sample
SimLapMinMs == 81000           \* random.randint(81000, 99000)
SimLapMaxMs == 99000

----------------------------------------------------------------------------
(* Values *)

\* Python's None, for a sample, a shared-memory block or a datagram
None == [none |-> TRUE]

\* None of the simulated lap clock's integer fields
NoneMs == -1

\* Elapsed lap times the shared memory reports: around the restart threshold
Times == {RestartThresholdMs - 1, RestartThresholdMs, RestartThresholdMs + 1}

\* sm.Physics of the shared memory when the n-th sample is read.  No branch of
\* the program reads these values, so one run of them is fed, every block
\* different from the others; the first one is a car standing still.
PhysicsAt(n) ==
    [speed_kmh |-> 40 * (n - 1), rpm |-> 1000 * n, gear |-> n,
     gas |-> n % 2, brake |-> (n + 1) % 2, steer_angle |-> n - 2,
     abs |-> n % 2, tc |-> (n + 1) % 2, fuel |-> 50 - n]

\* sm.Static of the shared memory
StaticInfo == [max_rpm |-> 9000, max_fuel |-> 120, car_model |-> "car", track |-> "track"]

\* The shared memory when the n-th sample is read, l laps completed and t ms
\* into the current lap
SMBlock(n, l, t) ==
    [Physics |-> PhysicsAt(n), Static |-> StaticInfo,
     Graphics |-> [completed_lap |-> l, current_time |-> t,
                   last_time |-> 90000, position |-> 1]]

\* What accSharedMemory.read_shared_memory() can return besides None
SMBlocks(n) == { SMBlock(n, l, t) : l \in 0..MaxLap, t \in Times }

SharedMemory(n) == {None} \cup SMBlocks(n)

\* The keys of current_lap_data
LapKeys == {"time_ms", "speed", "throttle", "brake", "steer_deg", "rpm", "gear", "abs", "tc"}

\* math.degrees
Degrees(rad) == rad * RadUnitDeg

\* gear if isinstance(gear, int) else 0
GearInt(gear) == IF gear \in Int THEN gear ELSE 0

\* Reader references
NoReader == [kind |-> "none", id |-> 0]
AccRef == [kind |-> "acc", id |-> 0]
AcRef(i) == [kind |-> "ac", id |-> i]

----------------------------------------------------------------------------
(* ACCReader *)

ACCRead(available, sm) ==
    IF ~available THEN None
    ELSE IF sm = None THEN None
    ELSE [speed |-> sm.Physics.speed_kmh,
          rpm |-> sm.Physics.rpm,
          max_rpm |-> sm.Static.max_rpm,
          gear |-> sm.Physics.gear - 1,
          throttle |-> sm.Physics.gas * 100,
          brake |-> sm.Physics.brake * 100,
          steer_angle |-> sm.Physics.steer_angle,
          abs |-> sm.Physics.abs,
          tc |-> sm.Physics.tc,
          fuel |-> sm.Physics.fuel,
          max_fuel |-> sm.Static.max_fuel,
          lap_time |-> sm.Graphics.last_time \div 1000,
          position |-> sm.Graphics.position,
          car_name |-> sm.Static.car_model,
          track_name |-> sm.Static.track,
          lap_count |-> sm.Graphics.completed_lap,
          current_time |-> sm.Graphics.current_time]

\* ACCReader.is_connected not looking at self.available
ACCIsConnected_IgnoreAvailable(available, sm) == sm # None

ACCIsConnected(available, sm) ==
    IF ~available THEN FALSE ELSE sm # None

----------------------------------------------------------------------------
(* ACUDPReader, the methods the poll cycle calls *)

\* ACUDPReader.__init__.  last_connect, decoded and last_parsed are history:
\* what the last connect() did, step by step; whether _parse_car_info has
\* decoded a datagram into a sample; the last datagram it was called with;
\* whether _listen has passed a timeout or a datagram it does not parse.
\* listener_thread is where the thread running _listen is: "none" before it
\* is started, "alive" at the test of the while loop, "recv" inside recvfrom,
\* "exited" after the test found running false, "dead" after the break.
NewUDPReader ==
    [socket |-> "none", connected |-> FALSE, latest_data |-> None,
     handshake_sent |-> FALSE, running |-> FALSE, listener_thread |-> "none",
     sim_lap_start_ms |-> NoneMs, sim_target_lap_ms |-> NoneMs,
     sim_lap_count |-> 0, sim_last_lap_ms |-> 0,
     last_connect |-> << >>, decoded |-> FALSE, last_parsed |-> None,
     skipped |-> FALSE]

\* What the network does to one connect()
ConnectOutcomes == {"reply", "empty_reply", "timeout", "send_error", "recv_error", "subscribe_error"}

\* The first step of connect(): a new datagram socket with a 1 s timeout
ConnectBegin(r) == << "socket" >>

\* connect() sending the subscribe request without waiting for the response
Connect_SubscribeAtOnce(r, net) ==
    LET opened == [r EXCEPT !.socket = "open"]
        begin == ConnectBegin(r) \o << "send_handshake", "send_subscribe" >>
    IN  CASE net = "reply" ->
               [reader |-> [opened EXCEPT !.connected = TRUE, !.handshake_sent = TRUE,
                                          !.running = TRUE, !.listener_thread = "alive",
                                          !.last_connect = begin \o
                                              << "recv_reply", "start_listener",
                                                 "return_true" >>],
                ok |-> TRUE]
          [] OTHER ->
               [reader |-> [opened EXCEPT !.last_connect = begin \o
                                              << "recv_timeout", "return_false" >>],
                ok |-> FALSE]

\* connect(): the reader afterwards, and the value returned
Connect(r, net) ==
    LET opened == [r EXCEPT !.socket = "open"]
        begin == ConnectBegin(r)
    IN  CASE net = "reply" ->
               [reader |-> [opened EXCEPT !.connected = TRUE, !.handshake_sent = TRUE,
                                          !.running = TRUE, !.listener_thread = "alive",
                                          !.last_connect = begin \o
                                              << "send_handshake", "recv_reply",
                                                 "send_subscribe", "start_listener",
                                                 "return_true" >>],
                ok |-> TRUE]
          [] net = "subscribe_error" ->
               [reader |-> [opened EXCEPT !.connected = TRUE, !.handshake_sent = TRUE,
                                          !.last_connect = begin \o
                                              << "send_handshake", "recv_reply",
                                                 "send_subscribe_error", "return_false" >>],
                ok |-> FALSE]
          [] net = "send_error" ->
               [reader |-> [opened EXCEPT !.last_connect = begin \o
                                              << "send_handshake_error", "return_false" >>],
                ok |-> FALSE]
          [] OTHER ->
               [reader |-> [opened EXCEPT !.last_connect = begin \o
                                              << "send_handshake",
                                                 CASE net = "timeout" -> "recv_timeout"
                                                   [] net = "empty_reply" -> "recv_empty"
                                                   [] OTHER -> "recv_error",
                                                 "return_false" >>],
                ok |-> FALSE]

\* read() calling connect() whatever the connected flag
UDPRead_AlwaysConnect(r, net) ==
    LET c == Connect(r, net)
    IN  IF ~c.ok THEN [reader |-> c.reader, data |-> None]
        ELSE [reader |-> c.reader, data |-> c.reader.latest_data]

\* read(): the reader afterwards, and the value returned
UDPRead(r, net) ==
    IF ~r.connected
    THEN LET c == Connect(r, net)
         IN  IF ~c.ok THEN [reader |-> c.reader, data |-> None]
             ELSE [reader |-> c.reader, data |-> c.reader.latest_data]
    ELSE [reader |-> r, data |-> r.latest_data]

\* is_connected() looking at the connected flag alone
UDPIsConnected_FlagOnly(r) == r.connected

\* is_connected()
UDPIsConnected(r) == r.connected /\ r.latest_data # None

Disconnect(r) ==
    [r EXCEPT !.running = FALSE,
              !.socket = IF r.socket = "none" THEN "none" ELSE "closed"]

----------------------------------------------------------------------------
(* ACUDPReader: the datagrams and the thread running _listen *)

\* A datagram of len bytes whose first four bytes encode tag; the four bytes
\* at every later offset off encode the number base + off
Datagram(len, tag, base) == [len |-> len, tag |-> tag, base |-> base]

\* data[off:off+4] has four bytes, so that struct.unpack does not raise
Sliceable(data, off) == off + 4 <= data.len

\* struct.unpack of data[off:off+4]
Unpack(data, off) == IF off = 0 THEN data.tag ELSE data.base + off

\* The sample _parse_car_info builds from what it decoded
CarInfo(speed_kmh, rpm, gear, pedals, lap_count, last_lap_ms, elapsed_ms) ==
    [speed |-> speed_kmh,
     rpm |-> rpm,
     max_rpm |-> UdpMaxRpm,
     gear |-> gear,
     throttle |-> pedals[1],
     brake |-> pedals[2],
     steer_angle |-> pedals[3],
     abs |-> pedals[4],
     tc |-> pedals[5],
     fuel |-> 0,
     max_fuel |-> UdpMaxFuel,
     lap_time |-> IF lap_count > 0 THEN last_lap_ms \div 1000 ELSE 0,
     position |-> 0,
     car_name |-> "Simulated Car",
     track_name |-> "Monza (Simulated)",
     lap_count |-> lap_count,
     current_time |-> elapsed_ms]

\* _parse_car_info reading the RPM four bytes early
ParseCarInfo_RpmEarly(r, data, now_ms, rnd) ==
    IF ~Sliceable(data, 32)
    THEN [reader |-> r, sample |-> None]
    ELSE [reader |-> [r EXCEPT !.sim_lap_start_ms = now_ms, !.sim_target_lap_ms = rnd],
          sample |-> CarInfo(Unpack(data, 4), Unpack(data, 24), Unpack(data, 32),
                             << 0, 0, 0, 0, 0 >>, r.sim_lap_count, r.sim_last_lap_ms, 0)]

\* _parse_car_info finishing a lap only when the target is exceeded
ParseCarInfo_StrictTarget(r, data, now_ms, rnd) ==
    LET offset == 4
        offset2 == offset + 8
    IN  IF ~ /\ Sliceable(data, offset)
             /\ Sliceable(data, offset2 + 16)
             /\ Sliceable(data, offset2 + 20)
        THEN [reader |-> r, sample |-> None]
        ELSE LET speed_kmh == Unpack(data, offset)
                 rpm == Unpack(data, offset2 + 16)
                 gear == Unpack(data, offset2 + 20)
                 pedals == IF data.len >= FullCarInfoLen
                           THEN << Unpack(data, 36), Unpack(data, 40), Unpack(data, 44),
                                   Unpack(data, 48), Unpack(data, 52) >>
                           ELSE << 0, 0, 0, 0, 0 >>
                 fresh == r.sim_lap_start_ms = NoneMs
                 start == IF fresh THEN now_ms ELSE r.sim_lap_start_ms
                 target == IF fresh THEN rnd ELSE r.sim_target_lap_ms
                 elapsed_ms == now_ms - start
                 finished == elapsed_ms > target
                 r2 == IF finished
                       THEN [r EXCEPT !.sim_last_lap_ms = elapsed_ms,
                                      !.sim_lap_count = @ + 1,
                                      !.sim_lap_start_ms = now_ms,
                                      !.sim_target_lap_ms = rnd]
                       ELSE [r EXCEPT !.sim_lap_start_ms = start,
                                      !.sim_target_lap_ms = target]
             IN  [reader |-> r2,
                  sample |-> CarInfo(speed_kmh, rpm, gear, pedals, r2.sim_lap_count,
                                     r2.sim_last_lap_ms,
                                     IF finished THEN 0 ELSE elapsed_ms)]

\* _parse_car_info at wall-clock time now_ms, with rnd what random.randint
\* returns: the reader afterwards and the value returned
ParseCarInfo(r, data, now_ms, rnd) ==
    LET offset == 4
        offset2 == offset + 8
    IN  IF ~ /\ Sliceable(data, offset)
             /\ Sliceable(data, offset2 + 16)
             /\ Sliceable(data, offset2 + 20)
        THEN [reader |-> r, sample |-> None]
        ELSE LET speed_kmh == Unpack(data, offset)
                 rpm == Unpack(data, offset2 + 16)
                 gear == Unpack(data, offset2 + 20)
                 pedals == IF data.len >= FullCarInfoLen
                           THEN << Unpack(data, 36), Unpack(data, 40), Unpack(data, 44),
                                   Unpack(data, 48), Unpack(data, 52) >>
                           ELSE << 0, 0, 0, 0, 0 >>
                 fresh == r.sim_lap_start_ms = NoneMs
                 start == IF fresh THEN now_ms ELSE r.sim_lap_start_ms
                 target == IF fresh THEN rnd ELSE r.sim_target_lap_ms
                 elapsed_ms == now_ms - start
                 finished == elapsed_ms >= target
                 r2 == IF finished
                       THEN [r EXCEPT !.sim_last_lap_ms = elapsed_ms,
                                      !.sim_lap_count = @ + 1,
                                      !.sim_lap_start_ms = now_ms,
                                      !.sim_target_lap_ms = rnd]
                       ELSE [r EXCEPT !.sim_lap_start_ms = start,
                                      !.sim_target_lap_ms = target]
             IN  [reader |-> r2,
                  sample |-> CarInfo(speed_kmh, rpm, gear, pedals, r2.sim_lap_count,
                                     r2.sim_last_lap_ms,
                                     IF finished THEN 0 ELSE elapsed_ms)]

\* The body of the while loop of _listen filling the sample that read()
\* returns field by field, the speed first
Received_FieldByField(r, data, now_ms, rnd) ==
    IF data.len > 4 /\ Unpack(data, 0) = CarInfoTag
    THEN LET p == ParseCarInfo(r, data, now_ms, rnd)
         IN  [p.reader EXCEPT !.latest_data =
                                  IF r.latest_data # None /\ p.sample # None
                                  THEN [r.latest_data EXCEPT !.speed = p.sample.speed]
                                  ELSE p.sample,
                              !.decoded = @ \/ p.sample # None,
                              !.last_parsed = data,
                              !.listener_thread = "alive"]
    ELSE [r EXCEPT !.listener_thread = "alive", !.skipped = TRUE]

\* The body of the while loop of _listen parsing datagrams of every tag
Received_AnyTag(r, data, now_ms, rnd) ==
    IF data.len > 4
    THEN LET p == ParseCarInfo(r, data, now_ms, rnd)
         IN  [p.reader EXCEPT !.latest_data = p.sample,
                              !.decoded = @ \/ p.sample # None,
                              !.last_parsed = data,
                              !.listener_thread = "alive"]
    ELSE [r EXCEPT !.listener_thread = "alive", !.skipped = TRUE]

\* The body of the while loop of _listen when recvfrom returns a datagram
Received(r, data, now_ms, rnd) ==
    IF data.len > 4 /\ Unpack(data, 0) = CarInfoTag
    THEN LET p == ParseCarInfo(r, data, now_ms, rnd)
         IN  [p.reader EXCEPT !.latest_data = p.sample,
                              !.decoded = @ \/ p.sample # None,
                              !.last_parsed = data,
                              !.listener_thread = "alive"]
    ELSE [r EXCEPT !.listener_thread = "alive", !.skipped = TRUE]

\* except Exception: break
ReceiveFailed(r) == [r EXCEPT !.listener_thread = "dead"]

\* except socket.timeout: continue
ReceiveTimedOut(r) == [r EXCEPT !.listener_thread = "alive", !.skipped = TRUE]

\* A loop whose condition does not read the running flag
LoopTest_Forever(r) == [r EXCEPT !.listener_thread = "recv"]

\* The test of "while self.running"
LoopTest(r) == [r EXCEPT !.listener_thread = IF r.running THEN "recv" ELSE "exited"]

\* The receive loop of a reader has been started and has not ended
LoopRunning(r) == r.listener_thread \in {"alive", "recv"}

----------------------------------------------------------------------------
(* TelemetryApp: lap buffer and session history *)

\* _reset_current_lap_data
ResetCurrentLapData == [k \in LapKeys |-> << >>]

\* _store_completed_lap without its test for data points
StoreCompletedLap_Unguarded(laps, lap_data, lap_count) ==
    Append(laps, [lap_number |-> lap_count, data |-> lap_data])

\* _store_completed_lap numbering the lap as the display does (lap 0 is "Lap 1")
StoreCompletedLap_DisplayLap(laps, lap_data, lap_count) ==
    IF lap_data["speed"] # << >>
    THEN Append(laps, [lap_number |-> IF lap_count > 0 THEN lap_count ELSE 1,
                       data |-> lap_data])
    ELSE laps

\* _store_completed_lap keeping the last lap only
StoreCompletedLap_LastOnly(laps, lap_data, lap_count) ==
    IF lap_data["speed"] # << >>
    THEN << [lap_number |-> lap_count, data |-> lap_data] >>
    ELSE laps

\* _store_completed_lap: session_laps afterwards
StoreCompletedLap(laps, lap_data, lap_count) ==
    IF lap_data["speed"] # << >>
    THEN Append(laps, [lap_number |-> lap_count, data |-> lap_data])
    ELSE laps

\* The boundary handling with the containers cleared before the lap is stored
LapBoundary_ResetFirst(laps, lap_data, lap_count) ==
    [laps |-> StoreCompletedLap(laps, ResetCurrentLapData, lap_count),
     lap_data |-> ResetCurrentLapData]

\* What update_telemetry does when lap_changed: store the finished lap, then
\* clear the containers.  session_laps and current_lap_data afterwards.
LapBoundary(laps, lap_data, lap_count) ==
    [laps |-> StoreCompletedLap(laps, lap_data, lap_count),
     lap_data |-> ResetCurrentLapData]

\* The lap-change test with a lap count that is not smaller taken for a new lap
LapChanged_NotSmaller(current_lap, current_time, lap_count, lap_time) ==
    \/ current_lap >= lap_count
    \/ (current_lap = 0 /\ lap_count > 0)
    \/ (current_time < RestartThresholdMs /\ lap_time > RestartThresholdMs)

\* The lap-change test with the restart rule looking at the sample's time alone
LapChanged_LowTimeOnly(current_lap, current_time, lap_count, lap_time) ==
    \/ current_lap > lap_count
    \/ (current_lap = 0 /\ lap_count > 0)
    \/ current_time < RestartThresholdMs

\* The lap-change test with the threshold included on the side of the last time
LapChanged_ThresholdIncluded(current_lap, current_time, lap_count, lap_time) ==
    \/ current_lap > lap_count
    \/ (current_lap = 0 /\ lap_count > 0)
    \/ (current_time < RestartThresholdMs /\ lap_time >= RestartThresholdMs)

\* The lap-change test of update_telemetry
LapChanged(current_lap, current_time, lap_count, lap_time) ==
    \/ current_lap > lap_count
    \/ (current_lap = 0 /\ lap_count > 0)
    \/ (current_time < RestartThresholdMs /\ lap_time > RestartThresholdMs)

\* The appends with the one to 'tc' forgotten
AppendSample_NoTc(lap_data, data, current_time) ==
    [k \in LapKeys |->
        IF k = "tc" THEN lap_data[k]
        ELSE Append(lap_data[k],
               CASE k = "time_ms" -> current_time
                 [] k = "speed" -> data.speed
                 [] k = "throttle" -> data.throttle
                 [] k = "brake" -> data.brake
                 [] k = "steer_deg" -> Degrees(data.steer_angle)
                 [] k = "rpm" -> data.rpm
                 [] k = "gear" -> GearInt(data.gear)
                 [] k = "abs" -> data.abs)]

\* The appends that end update_telemetry
\* The appends of update_telemetry skipping a sample with the elapsed time of
\* the one before
AppendSample_SkipRepeat(lap_data, data, current_time) ==
    IF /\ lap_data["time_ms"] # << >>
       /\ lap_data["time_ms"][Len(lap_data["time_ms"])] = current_time
    THEN lap_data
    ELSE [k \in LapKeys |->
             Append(lap_data[k],
                    CASE k = "time_ms" -> current_time
                      [] k = "speed" -> data.speed
                      [] k = "throttle" -> data.throttle
                      [] k = "brake" -> data.brake
                      [] k = "steer_deg" -> Degrees(data.steer_angle)
                      [] k = "rpm" -> data.rpm
                      [] k = "gear" -> GearInt(data.gear)
                      [] k = "abs" -> data.abs
                      [] k = "tc" -> data.tc)]

AppendSample(lap_data, data, current_time) ==
    [k \in LapKeys |->
        Append(lap_data[k],
               CASE k = "time_ms" -> current_time
                 [] k = "speed" -> data.speed
                 [] k = "throttle" -> data.throttle
                 [] k = "brake" -> data.brake
                 [] k = "steer_deg" -> Degrees(data.steer_angle)
                 [] k = "rpm" -> data.rpm
                 [] k = "gear" -> GearInt(data.gear)
                 [] k = "abs" -> data.abs
                 [] k = "tc" -> data.tc)]

\* _get_last_lap_data returning the first stored lap
GetLastLapData_First ==
    IF session_laps # << >> THEN session_laps[1].data
    ELSE current_lap_data

\* _get_last_lap_data
GetLastLapData ==
    IF session_laps # << >> THEN session_laps[Len(session_laps)].data
    ELSE current_lap_data

RECURSIVE ExtendLaps(_, _, _)
RECURSIVE ExtendLaps_Front(_, _, _)
\* The loop over session_laps putting every lap in front of the laps before it
ExtendLaps_Front(combined, laps, key) ==
    IF laps = << >> THEN combined
    ELSE ExtendLaps_Front(Head(laps).data[key] \o combined, Tail(laps), key)

\* The loop over session_laps of _get_session_data, for one key
ExtendLaps(combined, laps, key) ==
    IF laps = << >> THEN combined
    ELSE ExtendLaps(combined \o Head(laps).data[key], Tail(laps), key)

\* _get_session_data
GetSessionData ==
    [k \in LapKeys |-> ExtendLaps(<< >>, session_laps, k) \o current_lap_data[k]]

\* (t - start) / 1000.0, as the fraction of its numerator and denominator
ElapsedSeconds(t, start) == << t - start, MsPerSecond >>

\* _export_graphs always plotting against the sample index
ExportGraphs_SampleIndex(data_dict, file_path) ==
    IF data_dict["speed"] = << >> THEN None
    ELSE IF file_path = "" THEN None
    ELSE [file_path |-> file_path,
          x_values |-> [q \in 1..Len(data_dict["speed"]) |-> q - 1],
          x_label |-> "Samples",
          plotted |-> data_dict]

\* _export_graphs with file_path what the save dialog returns: the figure
\* saved, or None when nothing is saved
ExportGraphs(data_dict, file_path) ==
    IF data_dict["speed"] = << >> THEN None
    ELSE IF file_path = "" THEN None
    ELSE LET time_ms == data_dict["time_ms"]
         IN  [file_path |-> file_path,
              x_values |-> IF time_ms # << >>
                           THEN [q \in 1..Len(time_ms) |->
                                    ElapsedSeconds(time_ms[q], time_ms[1])]
                           ELSE [q \in 1..Len(data_dict["speed"]) |-> q - 1],
              x_label |-> IF time_ms # << >> THEN "Time (s)" ELSE "Samples",
              plotted |-> data_dict]

\* What the save dialog returns: nothing when cancelled, or the default name
FilePaths == {"", "graphs.png"}

\* The rest of the application is left alone by an export
ExportFrame ==
    UNCHANGED << auto_detect, current_reader, ac_reader, acc_available, readers,
                 current_lap_count, last_lap_time, current_lap_data, session_laps,
                 connection_label, now, processed >>

\* _export_graphs called with data_dict
Export(data_dict, file_path) ==
    LET fig == ExportGraphs(data_dict, file_path)
    IN  /\ exported' = IF fig = None THEN exported ELSE fig
        /\ ExportFrame

\* export_last_lap_graphs
ExportLastLapGraphs == \E file_path \in FilePaths : Export(GetLastLapData, file_path)

\* export_session_graphs
ExportSessionGraphs == \E file_path \in FilePaths : Export(GetSessionData, file_path)

----------------------------------------------------------------------------
(* TelemetryApp: source selection *)

Games == {"Auto-Detect", "AC (UDP)", "ACC (Shared Memory)"}

\* on_game_changed replacing the UDP reader without disconnect()
OnGameChanged_NoDisconnect(game) ==
    /\ CASE game = "Auto-Detect" ->
              /\ auto_detect' = TRUE
              /\ current_reader' = NoReader
              /\ UNCHANGED << ac_reader, readers >>
         [] game = "AC (UDP)" ->
              /\ auto_detect' = FALSE
              /\ readers' = Append(readers, NewUDPReader)
              /\ ac_reader' = AcRef(Len(readers) + 1)
              /\ current_reader' = AcRef(Len(readers) + 1)
         [] OTHER ->
              /\ auto_detect' = FALSE
              /\ current_reader' = AccRef
              /\ UNCHANGED << ac_reader, readers >>
    /\ UNCHANGED << acc_available, current_lap_count, last_lap_time, current_lap_data,
                    session_laps, connection_label, now, exported, processed >>

\* on_game_changed starting the lap segmentation afresh
OnGameChanged_ResetLaps(game) ==
    /\ CASE game = "Auto-Detect" ->
              /\ auto_detect' = TRUE
              /\ current_reader' = NoReader
              /\ UNCHANGED << ac_reader, readers >>
         [] game = "AC (UDP)" ->
              /\ auto_detect' = FALSE
              /\ readers' = Append(IF ac_reader.kind = "ac"
                                   THEN [readers EXCEPT ![ac_reader.id] = Disconnect(@)]
                                   ELSE readers,
                                   NewUDPReader)
              /\ ac_reader' = AcRef(Len(readers) + 1)
              /\ current_reader' = AcRef(Len(readers) + 1)
         [] OTHER ->
              /\ auto_detect' = FALSE
              /\ current_reader' = AccRef
              /\ UNCHANGED << ac_reader, readers >>
    /\ current_lap_count' = 0
    /\ last_lap_time' = 0
    /\ current_lap_data' = ResetCurrentLapData
    /\ UNCHANGED << acc_available, session_laps, connection_label, now, exported,
                    processed >>

\* on_game_changed
OnGameChanged(game) ==
    /\ CASE game = "Auto-Detect" ->
              /\ auto_detect' = TRUE
              /\ current_reader' = NoReader
              /\ UNCHANGED << ac_reader, readers >>
         [] game = "AC (UDP)" ->
              /\ auto_detect' = FALSE
              /\ readers' = Append(IF ac_reader.kind = "ac"
                                   THEN [readers EXCEPT ![ac_reader.id] = Disconnect(@)]
                                   ELSE readers,
                                   NewUDPReader)
              /\ ac_reader' = AcRef(Len(readers) + 1)
              /\ current_reader' = AcRef(Len(readers) + 1)
         [] OTHER ->
              /\ auto_detect' = FALSE
              /\ current_reader' = AccRef
              /\ UNCHANGED << ac_reader, readers >>
    /\ UNCHANGED << acc_available, current_lap_count, last_lap_time, current_lap_data,
                    session_laps, connection_label, now, exported, processed >>

\* detect_game asking the UDP reader before the shared-memory reader
DetectGame_UdpFirst(smc) ==
    LET made == ac_reader.kind # "ac"
        rs == IF made THEN Append(readers, NewUDPReader) ELSE readers
        ac == IF made THEN AcRef(Len(readers) + 1) ELSE ac_reader
    IN  [reader |-> IF UDPIsConnected(rs[ac.id]) THEN ac
                    ELSE IF ACCIsConnected(acc_available, smc) THEN AccRef
                    ELSE NoReader,
         ac |-> ac, readers |-> rs]

\* detect_game: the reader returned, and ac_reader / readers afterwards
DetectGame(smc) ==
    IF ACCIsConnected(acc_available, smc)
    THEN [reader |-> AccRef, ac |-> ac_reader, readers |-> readers]
    ELSE LET made == ac_reader.kind # "ac"
             rs == IF made THEN Append(readers, NewUDPReader) ELSE readers
             ac == IF made THEN AcRef(Len(readers) + 1) ELSE ac_reader
         IN  [reader |-> IF UDPIsConnected(rs[ac.id]) THEN ac ELSE NoReader,
              ac |-> ac, readers |-> rs]

\* update_telemetry clearing the lap buffer when read() returns None
UpdateTelemetry_ClearOnNoData(smc, smr, net) ==
    LET sel == IF auto_detect THEN DetectGame(smc)
               ELSE [reader |-> current_reader, ac |-> ac_reader, readers |-> readers]
        cur == sel.reader
        rd  == CASE cur.kind = "acc" ->
                      [readers |-> sel.readers, data |-> ACCRead(acc_available, smr)]
                 [] cur.kind = "ac" ->
                      LET u == UDPRead(sel.readers[cur.id], net)
                      IN  [readers |-> [sel.readers EXCEPT ![cur.id] = u.reader],
                           data |-> u.data]
                 [] OTHER -> [readers |-> sel.readers, data |-> None]
        data == rd.data
    IN  /\ current_reader' = cur
        /\ ac_reader' = sel.ac
        /\ readers' = rd.readers
        /\ UNCHANGED << auto_detect, acc_available, now, exported >>
        /\ IF cur.kind = "none"
           THEN /\ connection_label' = "Disconnected"
                /\ UNCHANGED << current_lap_count, last_lap_time, current_lap_data,
                                session_laps, processed >>
           ELSE IF data = None
           THEN /\ connection_label' = "Connection Lost"
                /\ current_lap_data' = ResetCurrentLapData
                /\ UNCHANGED << current_lap_count, last_lap_time,
                                session_laps, processed >>
           ELSE LET current_lap == data.lap_count
                    current_time == data.current_time
                    lap_changed == LapChanged(current_lap, current_time,
                                              current_lap_count, last_lap_time)
                    after == IF lap_changed
                             THEN LapBoundary(session_laps, current_lap_data,
                                              current_lap_count)
                             ELSE [laps |-> session_laps, lap_data |-> current_lap_data]
                IN  /\ session_laps' = after.laps
                    /\ current_lap_count' = current_lap
                    /\ last_lap_time' = current_time
                    /\ connection_label' =
                          IF cur.kind = "ac" THEN "Connected to AC" ELSE "Connected to ACC"
                    /\ current_lap_data' = AppendSample(after.lap_data, data, current_time)
                    /\ processed' = Append(processed,
                          [lap_count |-> current_lap, current_time |-> current_time,
                           lap_changed |-> lap_changed])

\* update_telemetry.  smc and smr are what the shared memory holds when
\* is_connected() and read() look at it, net is what the network does to a
\* connect() made by this poll.
UpdateTelemetry(smc, smr, net) ==
    LET sel == IF auto_detect THEN DetectGame(smc)
               ELSE [reader |-> current_reader, ac |-> ac_reader, readers |-> readers]
        cur == sel.reader
        rd  == CASE cur.kind = "acc" ->
                      [readers |-> sel.readers, data |-> ACCRead(acc_available, smr)]
                 [] cur.kind = "ac" ->
                      LET u == UDPRead(sel.readers[cur.id], net)
                      IN  [readers |-> [sel.readers EXCEPT ![cur.id] = u.reader],
                           data |-> u.data]
                 [] OTHER -> [readers |-> sel.readers, data |-> None]
        data == rd.data
    IN  /\ current_reader' = cur
        /\ ac_reader' = sel.ac
        /\ readers' = rd.readers
        /\ UNCHANGED << auto_detect, acc_available, now, exported >>
        /\ IF cur.kind = "none"
           THEN /\ connection_label' = "Disconnected"
                /\ UNCHANGED << current_lap_count, last_lap_time, current_lap_data,
                                session_laps, processed >>
           ELSE IF data = None
           THEN /\ connection_label' = "Connection Lost"
                /\ UNCHANGED << current_lap_count, last_lap_time, current_lap_data,
                                session_laps, processed >>
           ELSE LET current_lap == data.lap_count
                    current_time == data.current_time
                    lap_changed == LapChanged(current_lap, current_time,
                                              current_lap_count, last_lap_time)
                    after == IF lap_changed
                             THEN LapBoundary(session_laps, current_lap_data,
                                              current_lap_count)
                             ELSE [laps |-> session_laps, lap_data |-> current_lap_data]
                IN  /\ session_laps' = after.laps
                    /\ current_lap_count' = current_lap
                    /\ last_lap_time' = current_time
                    /\ connection_label' =
                          IF cur.kind = "ac" THEN "Connected to AC" ELSE "Connected to ACC"
                    /\ current_lap_data' = AppendSample(after.lap_data, data, current_time)
                    /\ processed' = Append(processed,
                          [lap_count |-> current_lap, current_time |-> current_time,
                           lap_changed |-> lap_changed])

----------------------------------------------------------------------------
(* The application after TelemetryApp.__init__ *)

Init ==
    /\ auto_detect = TRUE
    /\ current_reader = NoReader
    /\ ac_reader = NoReader
    /\ acc_available \in BOOLEAN
    /\ readers = << >>
    /\ current_lap_count = 0
    /\ last_lap_time = 0
    /\ current_lap_data = ResetCurrentLapData
    /\ session_laps = << >>
    /\ connection_label = "Disconnected"
    /\ now = 0
    /\ exported = None
    /\ processed = << >>

\* The inputs a poll can tell apart: the shared memory is looked at by
\* is_connected() only in auto-detect mode and by read() only when the ACC
\* reader is the current one, both only when the library is available; the
\* network is used only by a read() of a UDP reader that is not connected.
ProbeInputs ==
    IF auto_detect /\ acc_available THEN {None, CHOOSE b \in SMBlocks(1) : TRUE}
    ELSE {None}

ReadInputs(smc) ==
    IF acc_available /\ (IF auto_detect THEN smc # None ELSE current_reader.kind = "acc")
    THEN IF Len(processed) < MaxSamples THEN SharedMemory(Len(processed) + 1)
         ELSE {None}
    ELSE {None}

NetInputs(outcomes, smc) ==
    LET cur == IF auto_detect THEN DetectGame(smc).reader ELSE current_reader
    IN  IF cur.kind = "ac" /\ ~readers[cur.id].connected THEN outcomes
        ELSE {"timeout"}

\* One timer tick of the poll cycle, with the network answering a connect()
\* by one of outcomes, while at most maxReaders readers have been constructed;
\* the shared memory goes away once MaxSamples samples have been processed
PollWith(outcomes, maxReaders) ==
    \E smc \in ProbeInputs :
        \E smr \in ReadInputs(smc) :
            \E net \in NetInputs(outcomes, smc) :
                /\ UpdateTelemetry(smc, smr, net)
                /\ Len(readers') <= maxReaders
                /\ Len(processed') <= MaxSamples

\* The user picks an entry of the game combo box
GameChangedUpTo(maxReaders) ==
    \E game \in Games :
        /\ OnGameChanged(game)
        /\ Len(readers') <= maxReaders

\* The engine fed by the shared memory, with no UDP server answering
PollNoServer == PollWith({"timeout"}, EngineReaders)

GameChanged == GameChangedUpTo(EngineReaders)

NextEngine == PollNoServer \/ GameChanged

SpecEngine == Init /\ [][NextEngine]_vars

----------------------------------------------------------------------------
(* The UDP reader with a server on the network: the poll cycle, the combo
   box and the threads running _listen, within one millisecond of the wall
   clock.  The shared-memory library is not installed. *)

\* The lengths of the datagrams the server sends
UdpLengths == {4, 5, CoreCarInfoLen - 1, CoreCarInfoLen, 40,
               FullCarInfoLen - 1, FullCarInfoLen}

\* The datagrams the server sends: car-info datagrams of every length, and a
\* full-length datagram with another tag
UdpDatagrams ==
    { Datagram(l, CarInfoTag, 100) : l \in UdpLengths }
        \cup { Datagram(FullCarInfoLen, CarInfoTag + 1, 100) }

\* The rest of the application is left alone by the threads and the clock
AppUnchanged ==
    UNCHANGED << auto_detect, current_reader, ac_reader, acc_available,
                 current_lap_count, last_lap_time, current_lap_data, session_laps,
                 connection_label, exported, processed >>

\* A thread running _listen tests the loop condition
ListenerLoopTest ==
    \E i \in DOMAIN readers :
        /\ readers[i].listener_thread = "alive"
        /\ readers' = [readers EXCEPT ![i] = LoopTest(@)]
        /\ UNCHANGED now
        /\ AppUnchanged

\* recvfrom returns one of dgrams to a thread running _listen, with
\* random.randint returning one of targets
ListenerReceives(dgrams, targets) ==
    \E i \in DOMAIN readers :
        /\ readers[i].listener_thread = "recv"
        /\ readers[i].socket = "open"
        /\ \E data \in dgrams : \E rnd \in targets :
              readers' = [readers EXCEPT ![i] = Received(@, data, now, rnd)]
        /\ UNCHANGED now
        /\ AppUnchanged

\* recvfrom raises socket.timeout in a thread running _listen
ListenerTimesOut ==
    \E i \in DOMAIN readers :
        /\ readers[i].listener_thread = "recv"
        /\ readers' = [readers EXCEPT ![i] = ReceiveTimedOut(@)]
        /\ UNCHANGED now
        /\ AppUnchanged

\* recvfrom raises another exception in a thread running _listen, as it does
\* on a closed socket
ListenerFails ==
    \E i \in DOMAIN readers :
        /\ readers[i].listener_thread = "recv"
        /\ readers' = [readers EXCEPT ![i] = ReceiveFailed(@)]
        /\ UNCHANGED now
        /\ AppUnchanged

InitUdp == Init /\ acc_available = FALSE

\* One timer tick of the poll cycle with a server that may answer a connect()
PollUdp ==
    \E net \in NetInputs(ConnectOutcomes, None) :
        /\ UpdateTelemetry(None, None, net)
        /\ Len(readers') <= UdpReaders
        /\ Len(processed') <= UdpSamples

GameChangedUdp == GameChangedUpTo(UdpReaders)

ListenerReceivesUdp == ListenerReceives(UdpDatagrams, {SimLapMinMs})

NextUdp ==
    \/ PollUdp
    \/ GameChangedUdp
    \/ ListenerLoopTest
    \/ ListenerReceivesUdp
    \/ ListenerTimesOut
    \/ ListenerFails

SpecUdp == InitUdp /\ [][NextUdp]_vars

\* The same with the timer firing every 50 ms for ever, the threads running
\* _listen being scheduled, and the server sending datagrams for ever; the
\* user is free never to touch the combo box
SpecUdpLive ==
    /\ InitUdp
    /\ [][NextUdp]_vars
    /\ WF_vars(PollUdp)
    /\ WF_vars(ListenerLoopTest)
    /\ WF_vars(ListenerReceivesUdp)

----------------------------------------------------------------------------
(* Source selection with both sources present: the shared memory comes and
   goes, and a UDP server answers and sends full car-info datagrams *)

\* The shared memory while the game is running
LiveBlock == SMBlock(Len(processed) + 1, 0, RestartThresholdMs)

\* What is_connected() and read() of the ACC reader can find
SelectInputs == {None, LiveBlock}

PollSelect ==
    \E smc \in SelectInputs : \E smr \in SelectInputs :
        \E net \in NetInputs({"reply", "timeout"}, smc) :
            /\ UpdateTelemetry(smc, smr, net)
            /\ Len(readers') <= UdpReaders
            /\ Len(processed') <= UdpSamples

ListenerReceivesFull ==
    ListenerReceives({Datagram(FullCarInfoLen, CarInfoTag, 100)}, {SimLapMinMs})

NextSelect ==
    \/ PollSelect
    \/ GameChangedUdp
    \/ ListenerLoopTest
    \/ ListenerReceivesFull
    \/ ListenerTimesOut
    \/ ListenerFails

SpecSelect == Init /\ [][NextSelect]_vars

----------------------------------------------------------------------------
(* Reconfiguration: the user selects the UDP source again and again, so that
   readers are replaced while their threads run.  The shared-memory library
   is not installed; the server answers and sends full car-info datagrams. *)

PollReconf ==
    \E net \in NetInputs({"reply", "timeout"}, None) :
        /\ UpdateTelemetry(None, None, net)
        /\ Len(readers') <= ReconfReaders
        /\ Len(processed') <= UdpSamples

GameChangedReconf == GameChangedUpTo(ReconfReaders)

NextReconf ==
    \/ PollReconf
    \/ GameChangedReconf
    \/ ListenerLoopTest
    \/ ListenerReceivesFull
    \/ ListenerTimesOut
    \/ ListenerFails

SpecReconf == InitUdp /\ [][NextReconf]_vars

\* One step of the thread running _listen for reader i
ListenerRuns(i) ==
    /\ i \in DOMAIN readers
    /\ \/ ListenerLoopTest
       \/ ListenerReceivesFull
       \/ ListenerTimesOut
       \/ ListenerFails
    /\ readers'[i] # readers[i]

\* The same with every thread running _listen being scheduled: its loop test
\* is executed, and its recvfrom returns or raises, within the socket's
\* timeout at the latest.  The timer and the user are free to stop.
SpecReconfLive ==
    /\ InitUdp
    /\ [][NextReconf]_vars
    /\ \A i \in 1..ReconfReaders : WF_vars(ListenerRuns(i))

----------------------------------------------------------------------------
(* Exports: the ACC reader delivers samples and the user saves the graphs of
   the last lap and of the session *)

InitExport == Init /\ acc_available = TRUE

PollExport ==
    /\ Len(processed) < ExportSamples
    /\ \E sm \in SMBlocks(Len(processed) + 1) : UpdateTelemetry(sm, sm, "timeout")

NextExport == PollExport \/ ExportLastLapGraphs \/ ExportSessionGraphs

SpecExport == InitExport /\ [][NextExport]_vars

----------------------------------------------------------------------------
(* The simulated lap clock: the user selects the UDP source once, the server
   answers and sends full car-info datagrams while the wall clock advances,
   and the poll cycle processes the samples *)

\* One step of the wall clock, half the shortest simulated lap
ClockStepMs == SimLapMinMs \div 2

\* What random.randint(81000, 99000) returns
SimTargets == {SimLapMinMs, SimLapMaxMs}

\* The wall clock advances
Tick ==
    /\ now < MaxTicks * ClockStepMs
    /\ now' = now + ClockStepMs
    /\ UNCHANGED readers
    /\ AppUnchanged

\* The user selects the UDP source, once
SelectUdpOnce ==
    /\ ac_reader = NoReader
    /\ OnGameChanged("AC (UDP)")

PollClock ==
    \E net \in NetInputs({"reply"}, None) :
        /\ Len(processed) < ClockSamples
        /\ UpdateTelemetry(None, None, net)

ListenerReceivesClock ==
    ListenerReceives({Datagram(FullCarInfoLen, CarInfoTag, 100)}, SimTargets)

NextClock ==
    \/ SelectUdpOnce
    \/ PollClock
    \/ ListenerLoopTest
    \/ ListenerReceivesClock
    \/ ListenerTimesOut
    \/ Tick

SpecClock == InitUdp /\ [][NextClock]_vars

----------------------------------------------------------------------------
(* The hand-off of the latest sample: the server sends car-info datagrams
   with different contents while the poll cycle reads *)

HandOffDatagrams ==
    { Datagram(FullCarInfoLen, CarInfoTag, 100),
      Datagram(FullCarInfoLen, CarInfoTag, 200),
      Datagram(40, CarInfoTag, 200) }

PollHandOff ==
    \E net \in NetInputs({"reply"}, None) :
        /\ Len(processed) < HandOffSamples
        /\ UpdateTelemetry(None, None, net)

ListenerReceivesHandOff == ListenerReceives(HandOffDatagrams, {SimLapMinMs})

NextHandOff ==
    \/ SelectUdpOnce
    \/ PollHandOff
    \/ ListenerLoopTest
    \/ ListenerReceivesHandOff
    \/ ListenerTimesOut

SpecHandOff == InitUdp /\ [][NextHandOff]_vars

----------------------------------------------------------------------------
(* Switching between sources that both deliver samples: the shared memory
   reports a lap in progress beyond the threshold, with no lap or one lap
   completed, and a UDP server answers and sends full car-info datagrams *)

\* What read() of the ACC reader can find
SwitchBlocks ==
    { SMBlock(Len(processed) + 1, l, RestartThresholdMs + 1) : l \in {0, 1} }

PollSwitch ==
    \E smc \in SelectInputs : \E smr \in {None} \cup SwitchBlocks :
        \E net \in NetInputs({"reply"}, smc) :
            /\ UpdateTelemetry(smc, smr, net)
            /\ Len(readers') <= UdpReaders
            /\ Len(processed') <= SwitchSamples

NextSwitch ==
    \/ PollSwitch
    \/ GameChangedUdp
    \/ ListenerLoopTest
    \/ ListenerReceivesFull
    \/ ListenerTimesOut

SpecSwitch == InitExport /\ [][NextSwitch]_vars

----------------------------------------------------------------------------
(* The scenario of six samples: the ACC reader is available and connected, and
   the shared memory reports the lap counts of ScenarioLaps one poll after the
   other, with elapsed times that never drop from above the threshold to
   below it *)

ScenarioLaps == << 0, 0, 0, 1, 1, 2 >>

InitScenario == Init /\ acc_available = TRUE

ScenarioPoll ==
    \E t \in Times :
        LET n == Len(processed) + 1
            fed == IF n = 1 THEN 0 ELSE processed[n - 1].current_time
        IN  /\ n <= Len(ScenarioLaps)
            /\ ~(t < RestartThresholdMs /\ fed > RestartThresholdMs)
            /\ UpdateTelemetry(SMBlock(n, ScenarioLaps[n], t),
                               SMBlock(n, ScenarioLaps[n], t), "timeout")

SpecScenario == InitScenario /\ [][ScenarioPoll]_vars

----------------------------------------------------------------------------
(* The history of processed samples *)

NumProcessed == Len(processed)

\* current_lap_count and last_lap_time as left by the sample before the i-th
\* one: 0 and 0 before the first
PrevLap(i) == IF i = 1 THEN 0 ELSE processed[i - 1].lap_count
PrevTime(i) == IF i = 1 THEN 0 ELSE processed[i - 1].current_time

\* The i-th processed sample begins a lap buffer: it is the first sample or
\* it fired a lap boundary
Starts == { i \in 1..NumProcessed : i = 1 \/ processed[i].lap_changed }

\* The j-th sample that begins a lap buffer
NthStart(j) == CHOOSE s \in Starts : Cardinality({ x \in Starts : x < s }) = j - 1

\* The lap counts of the processed samples rise from each sample to the next
StrictlyIncreasing ==
    \A i \in 2..NumProcessed : processed[i].lap_count > processed[i - 1].lap_count

\* The i-th sample is a restart seen in the elapsed time alone
TimeDropOnly(i) ==
    /\ i >= 2
    /\ processed[i].lap_count = processed[i - 1].lap_count
    /\ processed[i - 1].current_time > RestartThresholdMs
    /\ processed[i].current_time < RestartThresholdMs

\* The samples i+1..j keep the lap count of sample i, each with a time that is
\* still below the threshold or not smaller than the one before
QuietAfter(i, j) ==
    \A m \in (i + 1)..j :
        /\ processed[m].lap_count = processed[i].lap_count
        /\ \/ processed[m].current_time >= processed[m - 1].current_time
           \/ /\ processed[m].current_time < RestartThresholdMs
              /\ processed[m - 1].current_time < RestartThresholdMs

\* A sample was processed by this step
SampleStep == Len(processed') = Len(processed) + 1

\* session_laps grew in this step
LapStored == Len(session_laps') > Len(session_laps)

\* Number of samples in a lap container, measured on one key
Samples(lap_data) == Len(lap_data["speed"])

RECURSIVE LapsLen(_, _, _)
\* Total length of key k over the first j stored laps
LapsLen(laps, j, k) ==
    IF j = 0 THEN 0 ELSE LapsLen(laps, j - 1, k) + Len(laps[j].data[k])

----------------------------------------------------------------------------
(* Lap segmentation and session recording *)

\* C1: a processed sample fires a lap boundary exactly when its lap count is
\* above the last observed one, or is 0 while the last observed one is above
\* 0, or its time is below 5000 while the last observed time is above 5000;
\* the last observed values are 0 and 0 at first and those of the sample
\* processed last afterwards.
C1_BoundaryIff ==
    /\ \A i \in 1..NumProcessed :
          processed[i].lap_changed <=>
              \/ processed[i].lap_count > PrevLap(i)
              \/ (processed[i].lap_count = 0 /\ PrevLap(i) > 0)
              \/ /\ processed[i].current_time < RestartThresholdMs
                 /\ PrevTime(i) > RestartThresholdMs
    /\ current_lap_count = PrevLap(NumProcessed + 1)
    /\ last_lap_time = PrevTime(NumProcessed + 1)

\* A boundary fired by the time rule alone, after a sample that fired none
C1_Witness ==
    /\ NumProcessed = 3
    /\ ~processed[2].lap_changed
    /\ processed[3].lap_changed
    /\ processed[3].lap_count = processed[2].lap_count
    /\ processed[3].lap_count > 0

\* C2 as claimed: after the six samples of the scenario, session_laps holds
\* exactly two laps, numbered 0 and 1, of three samples each, and the current
\* buffer holds one sample.
C2_ScenarioThreeEach ==
    NumProcessed = Len(ScenarioLaps) =>
        /\ Len(session_laps) = 2
        /\ session_laps[1].lap_number = 0
        /\ session_laps[2].lap_number = 1
        /\ \A j \in 1..2 : \A k \in LapKeys : Len(session_laps[j].data[k]) = 3
        /\ \A k \in LapKeys : Len(current_lap_data[k]) = 1

\* C2: after the six samples of the scenario, session_laps holds exactly two
\* laps, numbered 0 and 1, the first of three samples and the second of two
\* (the samples fed with lap count 0 and with lap count 1), and the current
\* buffer holds one sample, the sixth.
C2_Scenario ==
    NumProcessed = Len(ScenarioLaps) =>
        /\ Len(session_laps) = 2
        /\ session_laps[1].lap_number = 0
        /\ session_laps[2].lap_number = 1
        /\ \A k \in LapKeys : Len(session_laps[1].data[k]) = 3
        /\ \A k \in LapKeys : Len(session_laps[2].data[k]) = 2
        /\ \A k \in LapKeys : Len(current_lap_data[k]) = 1
        /\ session_laps[1].data["speed"] = << 0, 40, 80 >>
        /\ session_laps[2].data["speed"] = << 120, 160 >>
        /\ current_lap_data["speed"] = << 200 >>

\* The six samples of the scenario have been processed
C2_Witness ==
    /\ NumProcessed = Len(ScenarioLaps)
    /\ \A i \in 1..NumProcessed : processed[i].lap_count = ScenarioLaps[i]
    /\ current_lap_count = 2

\* C3: when the lap counts of the processed samples rise from each sample to
\* the next, session_laps holds as many laps as there were rises, and the
\* j-th stored lap holds the samples from the j-th sample that began a lap
\* buffer up to the next one.
C3_StrictlyIncreasingLaps ==
    StrictlyIncreasing /\ NumProcessed >= 1 =>
        /\ Len(session_laps) =
              Cardinality({ i \in 2..NumProcessed :
                              processed[i].lap_count > processed[i - 1].lap_count })
        /\ Len(session_laps) = Cardinality(Starts) - 1
        /\ \A j \in 1..Len(session_laps) : \A k \in LapKeys :
              Len(session_laps[j].data[k]) = NthStart(j + 1) - NthStart(j)

\* Three samples with rising lap counts have stored two laps
C3_Witness ==
    /\ StrictlyIncreasing
    /\ NumProcessed = 3
    /\ processed[3].lap_changed
    /\ Len(session_laps) = 2

\* C4: a sample with lap count 0 processed while the last observed lap count
\* is above 0 and the buffer holds samples appends the whole buffer to
\* session_laps as a lap, and the buffer afterwards holds that sample alone.
C4_RestartClosesLap ==
    [][ ( /\ SampleStep
          /\ current_lap_count > 0
          /\ current_lap_count' = 0
          /\ Samples(current_lap_data) > 0 )
        => /\ session_laps' = Append(session_laps,
                                     [lap_number |-> current_lap_count,
                                      data |-> current_lap_data])
           /\ \A k \in LapKeys : Len(current_lap_data'[k]) = 1
           /\ current_lap_data'["time_ms"] = << last_lap_time' >>
           /\ current_lap_data'["rpm"] = << PhysicsAt(Len(processed')).rpm >>
      ]_vars

\* A restart to lap count 0 has just closed a lap of two samples
C4_Witness ==
    /\ NumProcessed = 3
    /\ processed[3].lap_count = 0
    /\ processed[2].lap_count > 0
    /\ ~processed[2].lap_changed
    /\ Len(session_laps) = 1
    /\ Samples(session_laps[1].data) = 2
    /\ Samples(current_lap_data) = 1

\* C5: a sample whose time drops from above 5000 to below 5000 with the lap
\* count unchanged fires a boundary, and the samples after it fire none as
\* long as the lap count stays and the time stays below 5000 or rises.
C5_OneBoundaryPerTimeDrop ==
    \A i \in 1..NumProcessed :
        TimeDropOnly(i) =>
            /\ processed[i].lap_changed
            /\ \A j \in (i + 1)..NumProcessed :
                  QuietAfter(i, j) => ~processed[j].lap_changed

\* A time drop followed by a sample of the same lap count
C5_Witness ==
    /\ NumProcessed = 3
    /\ TimeDropOnly(2)
    /\ QuietAfter(2, 3)
    /\ Len(session_laps) = 1

\* C6 as claimed: a lap appended to session_laps carries the lap count
\* observed before the boundary sample, and not the boundary sample's own.
C6_TaggedNeverOwn ==
    [][ LapStored =>
          /\ session_laps'[Len(session_laps')].lap_number = current_lap_count
          /\ session_laps'[Len(session_laps')].lap_number # current_lap_count'
      ]_vars

\* C6: a lap appended to session_laps carries the lap count observed before
\* the boundary sample; that is the boundary sample's own lap count only when
\* the boundary was fired by the time rule with the lap count unchanged.
C6_TaggedPrevious ==
    [][ LapStored =>
          /\ Len(session_laps') = Len(session_laps) + 1
          /\ session_laps'[Len(session_laps')].lap_number = current_lap_count
          /\ ( session_laps'[Len(session_laps')].lap_number = current_lap_count'
               => /\ last_lap_time' < RestartThresholdMs
                  /\ last_lap_time > RestartThresholdMs )
      ]_vars

\* Laps stored at a rising lap count and at a restart to 0
C6_Witness ==
    /\ Len(session_laps) = 2
    /\ session_laps[1].lap_number = 0
    /\ session_laps[2].lap_number = MaxLap
    /\ current_lap_count = 0

\* C7: every lap in session_laps holds at least one sample.
C7_NoEmptyLap ==
    \A j \in 1..Len(session_laps) : \A k \in LapKeys :
        Len(session_laps[j].data[k]) >= 1

\* The first sample of a stream came with a lap count above 0: the boundary
\* fired on an empty buffer and nothing was stored
C7_Witness ==
    /\ NumProcessed = 1
    /\ processed[1].lap_changed
    /\ session_laps = << >>

\* C8: for every key, what _get_session_data returns is as long as the stored
\* laps and the current buffer together, and holds the stored laps in the
\* order of session_laps followed by the current buffer.
C8_SessionDataIsConcatenation ==
    \A k \in LapKeys :
        LET n == Len(session_laps)
            all == GetSessionData[k]
        IN  /\ Len(all) = LapsLen(session_laps, n, k) + Len(current_lap_data[k])
            /\ \A j \in 1..n : \A q \in 1..Len(session_laps[j].data[k]) :
                  all[LapsLen(session_laps, j - 1, k) + q] = session_laps[j].data[k][q]
            /\ \A q \in 1..Len(current_lap_data[k]) :
                  all[LapsLen(session_laps, n, k) + q] = current_lap_data[k][q]

\* Two stored laps and a current buffer
C8_Witness ==
    /\ Len(session_laps) = 2
    /\ Samples(current_lap_data) = 1
    /\ Len(GetSessionData["speed"]) = 3

\* C9: the sequences of the current buffer all have one length, and so have
\* the sequences of each stored lap.
C9_EqualLengths ==
    /\ \A k \in LapKeys : Len(current_lap_data[k]) = Samples(current_lap_data)
    /\ \A j \in 1..Len(session_laps) : \A k \in LapKeys :
          Len(session_laps[j].data[k]) = Samples(session_laps[j].data)

\* A stored lap of two samples and a buffer of one
C9_Witness ==
    /\ Len(session_laps) = 1
    /\ Samples(session_laps[1].data) = 2
    /\ Samples(current_lap_data) = 1
    /\ DOMAIN current_lap_data = LapKeys

\* C10: session_laps before any step is a prefix of session_laps after it.
C10_AppendOnly ==
    [][ /\ Len(session_laps') >= Len(session_laps)
        /\ SubSeq(session_laps', 1, Len(session_laps)) = session_laps
      ]_vars

\* Two laps stored, then the source changed to the UDP reader and polled
C10_Witness ==
    /\ Len(session_laps) = 2
    /\ current_reader.kind = "ac"
    /\ connection_label = "Connection Lost"

\* C11: with a stored lap, _get_last_lap_data returns the data of the last
\* element of session_laps, which holds the samples processed from the start
\* of the most recently closed buffer up to the last boundary; with no stored
\* lap it returns the current buffer, which holds every processed sample.
C11_LastLapData ==
    LET n == Len(session_laps)
    IN  IF n = 0
        THEN /\ GetLastLapData = current_lap_data
             /\ GetLastLapData["time_ms"] =
                    [q \in 1..NumProcessed |-> processed[q].current_time]
        ELSE LET a == NthStart(n)
                 b == NthStart(n + 1)
             IN  /\ GetLastLapData = session_laps[n].data
                 /\ GetLastLapData["time_ms"] =
                        [q \in 1..(b - a) |-> processed[a + q - 1].current_time]

\* Two different laps are stored and a sample is in the current buffer
C11_Witness ==
    /\ Len(session_laps) = 2
    /\ session_laps[1].data # session_laps[2].data
    /\ Samples(current_lap_data) = 1
    /\ GetLastLapData # current_lap_data

----------------------------------------------------------------------------
(* The UDP reader *)

\* The steps of connect() in which the caller waits in recvfrom
BlockingReceives == {"recv_reply", "recv_empty", "recv_timeout", "recv_error"}

\* The positions of a step in the record of a connect()
StepsAt(log, step) == { j \in DOMAIN log : log[j] = step }

\* The last connect() of a reader returned False
ConnectFailed(r) ==
    /\ r.last_connect # << >>
    /\ r.last_connect[Len(r.last_connect)] = "return_false"

\* C12: read() never waits in a socket receive: no connect() made by a read()
\* of the poll cycle has called recvfrom.
C12_ReadNeverBlocks ==
    \A i \in DOMAIN readers :
        \A j \in DOMAIN readers[i].last_connect :
            readers[i].last_connect[j] \notin BlockingReceives

\* C13: as long as no car-info datagram has been decoded into a sample by a
\* reader, its is_connected() is false, also after a completed handshake.
C13_NoSampleNotConnected ==
    \A i \in DOMAIN readers :
        ~readers[i].decoded => ~UDPIsConnected(readers[i])

\* The handshake and the subscribe are done and the loop runs, no datagram
\* has been decoded, and is_connected() is false
C13_Witness ==
    \E i \in DOMAIN readers :
        /\ StepsAt(readers[i].last_connect, "return_true") # {}
        /\ readers[i].connected /\ readers[i].handshake_sent
        /\ readers[i].listener_thread = "recv"
        /\ ~readers[i].decoded
        /\ ~UDPIsConnected(readers[i])

\* C14: whenever is_connected() is true, the socket is open and the receive
\* loop is running.
C14_ConnectedMeansLive ==
    \A i \in DOMAIN readers :
        UDPIsConnected(readers[i]) =>
            readers[i].socket = "open" /\ LoopRunning(readers[i])

\* C15: in every connect(), a subscribe request is sent or attempted only
\* after the handshake request was sent and its response received, the
\* receive loop is started only after the subscribe request was sent, no
\* request is sent before the handshake request, and after a timeout no
\* subscribe request is sent and no receive loop is started.
C15_ConnectOrder ==
    \A i \in DOMAIN readers :
        LET log == readers[i].last_connect
        IN  /\ \A j \in StepsAt(log, "send_subscribe") \cup
                          StepsAt(log, "send_subscribe_error") :
                  \E h \in 1..(j - 1) : \E k \in (h + 1)..(j - 1) :
                      log[h] = "send_handshake" /\ log[k] = "recv_reply"
            /\ \A j \in StepsAt(log, "start_listener") :
                  \E k \in 1..(j - 1) : log[k] = "send_subscribe"
            /\ \A j \in DOMAIN log :
                  log[j] \in BlockingReceives => j > 1 /\ log[j - 1] = "send_handshake"
            /\ StepsAt(log, "recv_timeout") # {} =>
                  /\ StepsAt(log, "send_subscribe") = {}
                  /\ StepsAt(log, "start_listener") = {}
                  /\ readers[i].listener_thread = "none"
            /\ readers[i].listener_thread # "none" => StepsAt(log, "start_listener") # {}

\* A connect() has got its response, subscribed and started the receive loop
C15_Witness ==
    \E i \in DOMAIN readers :
        /\ StepsAt(readers[i].last_connect, "recv_reply") # {}
        /\ StepsAt(readers[i].last_connect, "send_subscribe") # {}
        /\ StepsAt(readers[i].last_connect, "start_listener") # {}
        /\ readers[i].listener_thread = "alive"

\* C16: after a connect() that returned False, the connected flag is false
\* and no receive loop is running.
C16_FailureLeavesDisconnected ==
    \A i \in DOMAIN readers :
        ConnectFailed(readers[i]) =>
            ~readers[i].connected /\ ~LoopRunning(readers[i])

\* C17: once the receive loop has ended on a receive error, the connected
\* flag is false.
C17_ErrorReverts ==
    \A i \in DOMAIN readers :
        readers[i].listener_thread = "dead" => ~readers[i].connected

\* C18: a step in which _listen hands a car-info datagram shorter than 36
\* bytes to _parse_car_info leaves latest_data and is_connected() as they
\* were, and the receive loop running.
C18_ShortPacketDiscarded ==
    [][\A i \in DOMAIN readers :
          ( /\ readers[i].listener_thread = "recv"
            /\ readers'[i].last_parsed # readers[i].last_parsed
            /\ readers'[i].last_parsed.len < CoreCarInfoLen )
          => /\ readers'[i].latest_data = readers[i].latest_data
             /\ LoopRunning(readers'[i])
             /\ UDPIsConnected(readers'[i]) = UDPIsConnected(readers[i])]_vars

\* C19: the sample decoded from a car-info datagram has speed, RPM and gear
\* from offsets 4, 28 and 32 and a maximum RPM of 8000; throttle, brake,
\* steering angle, ABS and TC are from offsets 36, 40, 44, 48 and 52 when the
\* datagram has 56 bytes or more, and are all 0 when it has fewer.  Every
\* car-info datagram of 36 bytes or more is decoded.
C19_DecodedFields ==
    \A i \in DOMAIN readers :
        LET data == readers[i].last_parsed
            s == readers[i].latest_data
        IN  /\ (data # None /\ data.len >= 36) => s # None
            /\ s # None =>
                  /\ s.speed = Unpack(data, 4)
                  /\ s.rpm = Unpack(data, 28)
                  /\ s.gear = Unpack(data, 32)
                  /\ s.max_rpm = 8000
                  /\ IF data.len >= 56
                     THEN << s.throttle, s.brake, s.steer_angle, s.abs, s.tc >> =
                          << Unpack(data, 36), Unpack(data, 40), Unpack(data, 44),
                             Unpack(data, 48), Unpack(data, 52) >>
                     ELSE << s.throttle, s.brake, s.steer_angle, s.abs, s.tc >> =
                          << 0, 0, 0, 0, 0 >>

\* A 40-byte car-info datagram has been decoded
C19_Witness ==
    \E i \in DOMAIN readers :
        /\ readers[i].last_parsed # None
        /\ readers[i].last_parsed.len = 40
        /\ readers[i].latest_data # None
        /\ readers[i].latest_data.speed = 104
        /\ readers[i].latest_data.throttle = 0

----------------------------------------------------------------------------
(* Source selection *)

\* What a poll in auto-detect mode has to select when is_connected() of the
\* ACC reader looks at the shared memory smc
SelectedByPriority(smc) ==
    IF ACCIsConnected(acc_available, smc)
    THEN current_reader' = AccRef
    ELSE IF ac_reader.kind = "ac" /\ UDPIsConnected(readers[ac_reader.id])
    THEN current_reader' = ac_reader
    ELSE /\ current_reader' = NoReader
         /\ connection_label' = "Disconnected"
         /\ processed' = processed
         /\ current_lap_data' = current_lap_data
         /\ session_laps' = session_laps

\* C20: a poll in auto-detect mode makes the ACC reader the current one
\* whenever its is_connected() is true, also when the UDP reader is
\* connected; otherwise the UDP reader if its is_connected() is true;
\* otherwise no reader, and then it shows Disconnected and processes no
\* sample.
C20_AutoDetectPriority ==
    [][\A smc \in SelectInputs : \A smr \in SelectInputs :
          \A net \in {"reply", "timeout"} :
              (auto_detect /\ UpdateTelemetry(smc, smr, net)) => SelectedByPriority(smc)]_vars

\* In auto-detect mode a poll has made the ACC reader the current one and
\* processed its sample while the UDP reader is connected
C20_Witness ==
    /\ auto_detect
    /\ current_reader = AccRef
    /\ connection_label = "Connected to ACC"
    /\ ac_reader.kind = "ac"
    /\ UDPIsConnected(readers[ac_reader.id])
    /\ readers[ac_reader.id].socket = "open"

\* The UDP reader is the current reader and its is_connected() is true
UdpActive ==
    /\ current_reader.kind = "ac"
    /\ UDPIsConnected(readers[current_reader.id])

\* C21: with the shared-memory library absent and the mode left at
\* Auto-Detect, the polls eventually make the UDP reader the current reader
\* with is_connected() true.
C21_AutoDetectFindsUdp == <>(~auto_detect \/ UdpActive)

\* C22: a step of on_game_changed leaves no socket open that was open before
\* it, and has told the receive loop of its reader to stop.
C22_ChangeClosesSocket ==
    [][\A game \in Games :
          OnGameChanged(game) =>
              \A i \in DOMAIN readers :
                  readers[i].socket = "open" =>
                      readers'[i].socket = "closed" /\ ~readers'[i].running]_vars

\* C23: every reader but the one the application owns has had disconnect()
\* called on it (its loop is told to stop and its socket is not open), so at
\* most one socket is open.
C23_OneOpenSocket ==
    /\ \A i \in DOMAIN readers :
          (ac_reader.kind # "ac" \/ i # ac_reader.id) =>
              ~readers[i].running /\ readers[i].socket # "open"
    /\ Cardinality({ i \in DOMAIN readers : readers[i].socket = "open" }) <= 1

\* A connected reader has been replaced, and the new one is connected
C23_Witness ==
    /\ Len(readers) = 2
    /\ ac_reader = AcRef(2)
    /\ readers[1].connected /\ readers[1].socket = "closed" /\ ~readers[1].running
    /\ readers[2].connected /\ readers[2].socket = "open"

\* C24: a thread running _listen is inside recvfrom only on an open socket.
C24_NoUseAfterClose ==
    \A i \in DOMAIN readers :
        readers[i].listener_thread = "recv" => readers[i].socket = "open"

----------------------------------------------------------------------------
(* The ACC reader without its library, the connection label, polls without data *)

\* C25: once the shared-memory library was found absent it stays absent, and
\* whatever the shared memory holds, is_connected() of the ACC reader is
\* false and its read() returns None; no poll shows Connected to ACC.
C25_UnavailableForGood ==
    [][~acc_available =>
          /\ ~acc_available'
          /\ \A sm \in SharedMemory(1) :
                /\ ~ACCIsConnected(acc_available', sm)
                /\ ACCRead(acc_available', sm) = None
          /\ connection_label' # "Connected to ACC"]_vars

\* The library is absent, the ACC reader is the fixed selection and a poll
\* has read None from it
C25_Witness ==
    /\ ~acc_available
    /\ ~auto_detect
    /\ current_reader = AccRef
    /\ connection_label = "Connection Lost"

\* C26: a poll shows Connection Lost only for a reader that has delivered a
\* sample before: a UDP reader that has decoded a datagram, or the ACC reader
\* after a processed sample.
C26_LostOnlyAfterConnected ==
    [][\A net \in ConnectOutcomes :
          (UpdateTelemetry(None, None, net) /\ connection_label' = "Connection Lost") =>
              IF current_reader'.kind = "ac"
              THEN readers'[current_reader'.id].decoded
              ELSE processed # << >>]_vars

\* C27: a poll that shows Disconnected or Connection Lost, having no reader
\* or no data, leaves the observed lap count and elapsed time, the lap buffer
\* and the stored laps as they were, and processes nothing.
C27_NoDataNoChange ==
    [][\A smc \in SelectInputs : \A smr \in SelectInputs :
          \A net \in {"reply", "timeout"} :
              ( /\ UpdateTelemetry(smc, smr, net)
                /\ connection_label' \in {"Disconnected", "Connection Lost"} )
              => UNCHANGED << current_lap_count, last_lap_time, current_lap_data,
                              session_laps, processed >>]_vars

\* A sample is in the lap buffer and the last poll has read None
C27_Witness ==
    /\ connection_label = "Connection Lost"
    /\ processed # << >>
    /\ Samples(current_lap_data) = Len(processed)
    /\ last_lap_time = processed[Len(processed)].current_time

----------------------------------------------------------------------------
(* Exports *)

\* What an export of data_dict to file_path has to leave in exported
ExportedAs(data_dict, file_path) ==
    IF data_dict["speed"] = << >> \/ file_path = ""
    THEN exported' = exported
    ELSE LET t == data_dict["time_ms"]
         IN  /\ exported'.file_path = file_path
             /\ exported'.plotted = data_dict
             /\ IF t # << >>
                THEN /\ exported'.x_label = "Time (s)"
                     /\ exported'.x_values =
                            [q \in 1..Len(t) |-> << t[q] - t[1], 1000 >>]
                ELSE /\ exported'.x_label = "Samples"
                     /\ exported'.x_values =
                            [q \in 1..Len(data_dict["speed"]) |-> q - 1]

\* C28: an export of data without speed values saves nothing; otherwise the
\* x values are the time_ms values minus the first, in seconds, when time_ms
\* is not empty, and the sample indices 0..n-1 when it is.
C28_ExportXAxis ==
    [][\A file_path \in FilePaths :
          /\ Export(GetLastLapData, file_path) => ExportedAs(GetLastLapData, file_path)
          /\ Export(GetSessionData, file_path) => ExportedAs(GetSessionData, file_path)]_vars

\* The session of two samples with different times has been exported
C28_Witness ==
    /\ exported # None
    /\ exported.x_label = "Time (s)"
    /\ Len(exported.x_values) = 2
    /\ exported.x_values[1] = << 0, 1000 >>
    /\ exported.x_values[2][1] # 0
    /\ Len(session_laps) = 1

----------------------------------------------------------------------------
(* The appends of a poll, and the simulated lap clock *)

\* C29: a poll that processes a sample leaves every sequence of the current
\* buffer with exactly one element if it closed a lap, and one element
\* longer than before if it did not, also when the sample is the one the
\* poll before processed.
C29_OneAppendPerPoll ==
    [][SampleStep =>
          \A k \in LapKeys :
              Len(current_lap_data'[k]) =
                  IF processed'[Len(processed')].lap_changed THEN 1
                  ELSE Len(current_lap_data[k]) + 1]_vars

\* The UDP reader has delivered the same sample to two polls
C29_Witness ==
    /\ current_reader.kind = "ac"
    /\ Len(processed) = 2
    /\ processed[1].current_time = processed[2].current_time
    /\ ~processed[2].lap_changed
    /\ Samples(current_lap_data) = 2
    /\ current_lap_data["speed"][1] = current_lap_data["speed"][2]

\* The sample decoded by a step of _listen from the clock and the reader
\* before it
ClockedSample(r, r2) ==
    LET s == r2.latest_data
        fresh == r.sim_lap_start_ms = NoneMs
        elapsed == IF fresh THEN 0 ELSE now - r.sim_lap_start_ms
    IN  /\ fresh => /\ r2.sim_lap_start_ms = now
                    /\ r2.sim_target_lap_ms \in 81000..99000
                    /\ r2.sim_lap_count = r.sim_lap_count
                    /\ s.current_time = 0
        /\ (~fresh /\ elapsed >= r.sim_target_lap_ms) =>
              /\ r2.sim_lap_count = r.sim_lap_count + 1
              /\ r2.sim_last_lap_ms = elapsed
              /\ r2.sim_lap_start_ms = now
              /\ r2.sim_target_lap_ms \in 81000..99000
              /\ s.current_time = 0
        /\ (~fresh /\ elapsed < r.sim_target_lap_ms) =>
              /\ r2.sim_lap_count = r.sim_lap_count
              /\ r2.sim_last_lap_ms = r.sim_last_lap_ms
              /\ r2.sim_lap_start_ms = r.sim_lap_start_ms
              /\ r2.sim_target_lap_ms = r.sim_target_lap_ms
              /\ s.current_time = elapsed
        /\ s.lap_count = r2.sim_lap_count
        /\ s.lap_count >= r.sim_lap_count
        /\ (r.latest_data # None => s.lap_count >= r.latest_data.lap_count)
        /\ (s.lap_time = 0) = (s.lap_count = 0)
        /\ (s.lap_count > 0 => s.lap_time >= 81)
        /\ s.current_time >= 0 /\ s.current_time < 99000

\* C30: every step of _listen that decodes a car-info datagram runs the
\* simulated lap clock: the first sets the lap start to now and draws a
\* target in 81000..99000; a later one with elapsed >= target counts one lap
\* more, keeps the elapsed time as the last lap time, restarts the lap at now
\* with a new target and reports the elapsed time 0; any other reports the
\* elapsed time and leaves the clock alone.  The lap count never decreases,
\* the lap time is 0 exactly while the lap count is 0 and at least 81 s
\* after, and the elapsed time reported is in 0..98999.
C30_SimulatedLapClock ==
    [][\A i \in DOMAIN readers :
          \A rnd \in SimTargets :
              ( /\ readers[i].listener_thread = "recv"
                /\ readers'[i] = Received(readers[i],
                                          Datagram(FullCarInfoLen, CarInfoTag, 100),
                                          now, rnd) )
              => ClockedSample(readers[i], readers'[i])]_vars

\* A simulated lap of exactly the shortest target has been completed
C30_Witness ==
    \E i \in DOMAIN readers :
        /\ readers[i].sim_lap_count = 1
        /\ readers[i].sim_last_lap_ms = 81000
        /\ readers[i].sim_lap_start_ms = now
        /\ readers[i].latest_data # None
        /\ readers[i].latest_data.lap_count = 1
        /\ readers[i].latest_data.lap_time = 81
        /\ readers[i].latest_data.current_time = 0

----------------------------------------------------------------------------
(* The receive loop and the poll cycle side by side *)

\* The datagrams _listen does not hand to _parse_car_info
IgnoredDatagrams == { data \in UdpDatagrams : data.len <= 4 \/ data.tag # 2 }

\* C31: a step of the receive loop that is a receive timeout, or the receive
\* of a datagram of at most 4 bytes or of a tag other than 2, leaves
\* latest_data, the connected flag and the simulated lap clock as they were,
\* and the loop running.
C31_IgnoredReceives ==
    [][\A i \in DOMAIN readers :
          ( /\ readers[i].listener_thread = "recv"
            /\ \/ readers'[i] = ReceiveTimedOut(readers[i])
               \/ \E data \in IgnoredDatagrams :
                     readers'[i] = Received(readers[i], data, now, SimLapMinMs) )
          => /\ readers'[i].latest_data = readers[i].latest_data
             /\ readers'[i].connected = readers[i].connected
             /\ readers'[i].sim_lap_start_ms = readers[i].sim_lap_start_ms
             /\ readers'[i].sim_target_lap_ms = readers[i].sim_target_lap_ms
             /\ readers'[i].sim_lap_count = readers[i].sim_lap_count
             /\ readers'[i].sim_last_lap_ms = readers[i].sim_last_lap_ms
             /\ LoopRunning(readers'[i])]_vars

\* A reader holding a sample has passed a timeout or an ignored datagram and
\* is in recvfrom again
C31_Witness ==
    \E i \in DOMAIN readers :
        /\ readers[i].skipped
        /\ readers[i].latest_data # None
        /\ readers[i].connected
        /\ readers[i].listener_thread = "recv"

\* The fields of a sample are those of one of the datagrams sent
FromOnePacket(s) ==
    \E data \in HandOffDatagrams :
        /\ s.speed = data.base + 4
        /\ s.rpm = data.base + 28
        /\ s.gear = data.base + 32
        /\ << s.throttle, s.brake, s.steer_angle, s.abs, s.tc >> =
              IF data.len >= 56
              THEN << data.base + 36, data.base + 40, data.base + 44,
                      data.base + 48, data.base + 52 >>
              ELSE << 0, 0, 0, 0, 0 >>

\* The q-th entries of a lap container are those of one of the datagrams sent
EntryFromOnePacket(lap_data, q) ==
    \E data \in HandOffDatagrams :
        /\ lap_data["speed"][q] = data.base + 4
        /\ lap_data["rpm"][q] = data.base + 28
        /\ lap_data["gear"][q] = GearInt(data.base + 32)
        /\ << lap_data["throttle"][q], lap_data["brake"][q], lap_data["steer_deg"][q],
              lap_data["abs"][q], lap_data["tc"][q] >> =
              IF data.len >= 56
              THEN << data.base + 36, data.base + 40, Degrees(data.base + 44),
                      data.base + 48, data.base + 52 >>
              ELSE << 0, 0, Degrees(0), 0, 0 >>

\* C32: the sample a read() can return, and every sample a read() has
\* returned to a poll, is None or has all its fields from one datagram.
C32_AtomicHandOff ==
    /\ \A i \in DOMAIN readers :
          readers[i].latest_data # None => FromOnePacket(readers[i].latest_data)
    /\ \A q \in 1..Samples(current_lap_data) : EntryFromOnePacket(current_lap_data, q)
    /\ \A j \in 1..Len(session_laps) : \A q \in 1..Samples(session_laps[j].data) :
          EntryFromOnePacket(session_laps[j].data, q)

\* Two polls have read the samples of two different datagrams
C32_Witness ==
    /\ Samples(current_lap_data) = 2
    /\ current_lap_data["speed"][1] = 104
    /\ current_lap_data["speed"][2] = 204
    /\ current_lap_data["throttle"][2] = 0
    /\ \E i \in DOMAIN readers : readers[i].latest_data # None

\* C33: no step of the poll-side thread, update_telemetry with its read() and
\* connect() or on_game_changed with its disconnect(), writes latest_data
\* or the connected flag of a reader.
C33_SingleWriter ==
    [][( \/ \E net \in ConnectOutcomes : UpdateTelemetry(None, None, net)
         \/ \E game \in Games : OnGameChanged(game) )
       => \A i \in DOMAIN readers :
             /\ readers'[i].latest_data = readers[i].latest_data
             /\ readers'[i].connected = readers[i].connected]_vars

\* C34: a poll changes a reader only by a connect() made while its connected
\* flag is false and it has no receive task; the task exists afterwards only
\* if that connect() returned True.  A receive task that runs was started by
\* the last connect() of its reader, so no connect() has replaced the socket
\* under it.
C34_OneReceiveTask ==
    [][ /\ \A net \in ConnectOutcomes :
              UpdateTelemetry(None, None, net) =>
                  \A i \in DOMAIN readers :
                      readers'[i] # readers[i] =>
                          /\ ~readers[i].connected
                          /\ readers[i].listener_thread = "none"
                          /\ readers'[i].listener_thread # "none" =>
                                StepsAt(readers'[i].last_connect, "return_true") # {}
        /\ \A i \in DOMAIN readers :
              LoopRunning(readers[i]) =>
                  /\ readers[i].connected
                  /\ StepsAt(readers[i].last_connect, "start_listener") # {}
      ]_vars

\* The receive task of the current reader has ended on a receive error and
\* polls go on reading from the reader
C34_Witness ==
    /\ current_reader.kind = "ac"
    /\ readers[current_reader.id].listener_thread = "dead"
    /\ readers[current_reader.id].connected
    /\ readers[current_reader.id].socket = "open"
    /\ processed # << >>

\* The thread running the receive loop of reader i is in the loop
InLoop(i) == i \in DOMAIN readers /\ LoopRunning(readers[i])

\* C35: once disconnect() has been called on a connected reader (its
\* connected flag is set and its running flag is cleared), the thread running
\* its receive loop ends: it is not in the loop for ever
C35_LoopEnds ==
    \A i \in 1..ReconfReaders :
        (/\ InLoop(i)
         /\ readers[i].connected
         /\ ~readers[i].running)
            ~> ~InLoop(i)

\* The thread of a disconnected reader that had delivered a sample has left
\* the loop at the loop test, while the reader that replaced it is connected
C35_Witness ==
    \E i \in DOMAIN readers : \E j \in DOMAIN readers :
        /\ readers[i].connected
        /\ readers[i].latest_data # None
        /\ readers[i].socket = "closed"
        /\ readers[i].listener_thread = "exited"
        /\ j # i
        /\ LoopRunning(readers[j])

\* The source a stored sample came from, told by its speed: the shared memory
\* reports multiples of 40, the datagrams the number at the speed's offset
FromUdp(speed) == speed % 40 # 0

\* The speeds recorded so far, lap after lap, the current lap last
RECURSIVE SpeedsUpTo(_)
SpeedsUpTo(j) ==
    IF j = 0 THEN << >> ELSE SpeedsUpTo(j - 1) \o session_laps[j].data["speed"]

RecordedSpeeds == SpeedsUpTo(Len(session_laps)) \o current_lap_data["speed"]

\* C36: a change of mode or source leaves lastObservedLapCount,
\* lastObservedCurrentLapTimeMs, the current-lap buffer and session_laps as
\* they are: on_game_changed changes none of them, and so does a poll that
\* processes no sample, whatever reader it picks.  A poll that processes a
\* sample compares it with the values of the sample processed before, whatever
\* its source, and adds it to the samples recorded from all sources.
C36_SwitchKeepsLapState ==
    [][ /\ (\A game \in Games : OnGameChanged(game) =>
               UNCHANGED << current_lap_count, last_lap_time, current_lap_data,
                            session_laps >>)
        /\ ~SampleStep =>
               UNCHANGED << current_lap_count, last_lap_time, current_lap_data,
                            session_laps >>
        /\ SampleStep =>
               LET n == Len(processed')
                   s == processed'[n]
               IN  /\ current_lap_count = PrevLap(n)
                   /\ last_lap_time = PrevTime(n)
                   /\ s.lap_changed <=>
                         \/ s.lap_count > PrevLap(n)
                         \/ (s.lap_count = 0 /\ PrevLap(n) > 0)
                         \/ (s.current_time < 5000 /\ PrevTime(n) > 5000)
                   /\ Len(RecordedSpeeds') = Len(RecordedSpeeds) + 1
                   /\ SubSeq(RecordedSpeeds', 1, Len(RecordedSpeeds)) = RecordedSpeeds
      ]_vars

\* After a sample of the shared memory with one lap completed, the source was
\* changed and the first UDP sample, with no lap completed, fired a boundary:
\* the stored lap holds the sample of the shared memory, the buffer the one
\* of the datagram
C36_Witness ==
    /\ Len(processed) = 2
    /\ processed[1].lap_count = 1
    /\ processed[2].lap_count = 0
    /\ processed[2].lap_changed
    /\ Len(session_laps) = 1
    /\ Len(RecordedSpeeds) = 2
    /\ ~FromUdp(RecordedSpeeds[1])
    /\ FromUdp(RecordedSpeeds[2])
    /\ current_reader.kind = "ac"

\* Number of lap boundaries fired by the first n processed samples
RECURSIVE Boundaries(_)
Boundaries(n) ==
    IF n = 0 THEN 0
    ELSE Boundaries(n - 1) + (IF processed[n].lap_changed THEN 1 ELSE 0)

\* The boundaries fired never outnumber the laps the simulated clock has
\* completed
BoundariesWithinCompletions ==
    \A i \in DOMAIN readers : Boundaries(Len(processed)) <= readers[i].sim_lap_count

\* C37: with one UDP reader feeding a fresh engine, the boundaries fired
\* never outnumber the laps the simulated clock has completed, and every
\* completion that a polled sample shows has fired exactly one boundary: after
\* each processed sample, the boundaries fired so far are as many as the laps
\* the sample reports completed
C37_OneBoundaryPerCompletion ==
    /\ BoundariesWithinCompletions
    /\ \A n \in 1..Len(processed) : Boundaries(n) = processed[n].lap_count

====
